---- MODULE Spec2Model ----
(***************************************************************************)
(* A model of the two notebooks of attacks/reconstruction:                 *)
(*   - the database-reconstruction notebook: the two Z3 warm-up cells,     *)
(*     the construction of the applications (constraints) from the         *)
(*     released statistics, Attack #1 and the comparison of the            *)
(*     reconstruction with the original data;                              *)
(*   - the accuracy notebook: the two simulations that release a DP mean   *)
(*     n_sims times and print the empirical coverage of the accuracy       *)
(*     interval.                                                           *)
(* The cells of a notebook run top to bottom; a program counter per part   *)
(* gives the statement that runs next.  Z3 and the WhiteNoise library are  *)
(* the environment: a solver call returns any satisfying assignment, a     *)
(* released DP value is any value of a small set around the true one.      *)
(***************************************************************************)
EXTENDS Integers, Sequences, FiniteSets, TLC

VARIABLES
    \* ---- Z3 warm-up cells
    zpc,            \* statement of the warm-up cells that runs next
    zout,           \* what z3.solve printed, one entry per call
    \* ---- reconstruction attack
    pc,             \* cell of the attack that runs next
    orig_data,      \* rows of the sensitive table: <<cell, income>>
    count_dict,     \* subgroup -> released count
    mean_income_dict,    \* subgroup -> released mean, as <<numerator, denominator>>
    median_income_dict,  \* subgroup -> released median, as <<numerator, denominator>>
    min_income_dict,     \* subgroup -> released min
    max_income_dict,     \* subgroup -> released max
    elem_dict,      \* five-way cell -> names of its elements
    applications,   \* the set of applications of the non-private releases
    model,          \* result of check_solution(solver)
    priv_model,     \* result of check_solution(priv_solver)
    recon_data,     \* element -> reconstructed income
    tallies,        \* <<exact, within_2k, within_5k>>
    stdout,         \* lines printed by the attack cells
    \* ---- accuracy simulations
    spc,            \* statement of the simulation cells that runs next
    csv,            \* the age column of data.csv
    D_mean_age,     \* np.mean(D)
    D_tilde_mean_age,   \* np.mean(np.clip(D, age_lower_bound, age_upper_bound))
    data_size,      \* the n the analyst resizes to
    releases,       \* first simulation: the list of DP mean components
    true_D_tilde_mean_ages,  \* second simulation: the epsilon = 10^8 components
    dp_D_tilde_mean_ages,    \* second simulation: the epsilon = 1 components
    index,          \* the next value of range(n_sims)
    accuracy,       \* the value of get_accuracy(0.05)
    release_values, \* component -> value, filled by analysis.release()
    true_values,    \* [true.value for true in true_D_tilde_mean_ages]
    dp_values,      \* [release.value for release in ...]
    sout            \* lines printed by the simulation cells

zvars == <<zpc, zout>>
rvars == <<pc, orig_data, count_dict, mean_income_dict, median_income_dict,
           min_income_dict, max_income_dict, elem_dict, applications, model,
           priv_model, recon_data, tallies, stdout>>
svars == <<spc, csv, D_mean_age, D_tilde_mean_age, data_size, releases,
           true_D_tilde_mean_ages, dp_D_tilde_mean_ages, index, accuracy,
           release_values, true_values, dp_values, sout>>
vars == <<zvars, rvars, svars>>

(***************************************************************************)
(* Sums, sorted insertion.                                                 *)
(***************************************************************************)
RECURSIVE SumSeq(_)
SumSeq(s) == IF s = <<>> THEN 0 ELSE Head(s) + SumSeq(Tail(s))

RECURSIVE Insert(_, _)
Insert(x, s) ==
    IF s = <<>> THEN <<x>>
    ELSE IF x <= Head(s) THEN <<x>> \o s
    ELSE <<Head(s)>> \o Insert(x, Tail(s))

Abs(x) == IF x < 0 THEN -x ELSE x

(***************************************************************************)
(* The Z3 warm-up cells.  A subgroup of three elements i_1, i_2, i_3 with  *)
(* min 0, median 50,000 and mean 60,000 (sum 180,000).                     *)
(***************************************************************************)
MinRelease == 0
MedianRelease == 50000
SumRelease == 180000

\* How far around the values of interest the solver's candidates range.
MaxDelta == 1

\* The integers a candidate assignment may use: Z3 searches all of them, the
\* model those around the released values and the values they determine.
Anchors == {MinRelease, MedianRelease, SumRelease - MedianRelease,
            SumRelease \div 2, SumRelease}
Dom == {v + d : v \in Anchors, d \in (-MaxDelta)..MaxDelta}
Candidates == Dom \X Dom \X Dom

\* i_1 <= i_2, i_2 <= i_3, i_1 == 0, i_2 == 50_000, Sum(i_1, i_2, i_3) == 180_000
\* (faulty variant: the median as a lower bound)
SingleConstraintsBug(m) ==
    /\ m[1] <= m[2]
    /\ m[2] <= m[3]
    /\ m[1] = MinRelease
    /\ m[2] >= MedianRelease
    /\ m[1] + m[2] + m[3] = SumRelease
SingleConstraints(m) ==
    /\ m[1] <= m[2]
    /\ m[2] <= m[3]
    /\ m[1] = MinRelease
    /\ m[2] = MedianRelease
    /\ m[1] + m[2] + m[3] = SumRelease

\* i_1 <= i_2, i_2 <= i_3, i_1 == 0, Sum(i_1, i_2, i_3) == 180_000
\* (faulty variant: i_2 <= i_3 left out)
ManyConstraintsBug(m) ==
    /\ m[1] <= m[2]
    /\ m[1] = MinRelease
    /\ m[1] + m[2] + m[3] = SumRelease
ManyConstraints(m) ==
    /\ m[1] <= m[2]
    /\ m[2] <= m[3]
    /\ m[1] = MinRelease
    /\ m[1] + m[2] + m[3] = SumRelease

SingleModels == {m \in Candidates : SingleConstraints(m)}
ManyModels == {m \in Candidates : ManyConstraints(m)}

\* z3.solve prints a satisfying assignment, or "no solution".
Z3Solve(models) ==
    IF models = {} THEN {[sat |-> FALSE, m |-> <<>>]}
    ELSE {[sat |-> TRUE, m |-> mm] : mm \in models}

SolveSingle ==
    /\ zpc = "single"
    /\ \E r \in Z3Solve(SingleModels) : zout' = Append(zout, r)
    /\ zpc' = "many1"
    /\ UNCHANGED <<rvars, svars>>

SolveMany ==
    /\ zpc \in {"many1", "many2", "many3"}
    /\ \E r \in Z3Solve(ManyModels) : zout' = Append(zout, r)
    /\ zpc' = CASE zpc = "many1" -> "many2"
                [] zpc = "many2" -> "many3"
                [] OTHER -> "done"
    /\ UNCHANGED <<rvars, svars>>

(***************************************************************************)
(* The reconstruction attack.  The table has the five-way cells Cells; a   *)
(* subgroup is a non-empty set of cells (a coarser combination of the      *)
(* variables is a union of five-way cells).  reconstruction_module is not  *)
(* part of the sources at hand: what its functions do is taken from the    *)
(* notebook's text.                                                        *)
(***************************************************************************)
Cells == {"a", "b"}
Subgroups == (SUBSET Cells) \ {{}}

\* Rows of the table.
MaxRows == 4

\* Incomes of the table, and the integers a candidate assignment may use.
IncomeValues == {0, 12000}
SolverValues == {0, 2000, 4000, 6000, 8000, 10000, 12000}

Datasets == UNION {[1..n -> Cells \X IncomeValues] : n \in 1..MaxRows}

\* lowest_allowable_count = 1
lowest_allowable_count == 1

\* The incomes of the rows of subgroup s, in non-decreasing order.
RECURSIVE IncomesOf(_, _)
IncomesOf(data, s) ==
    IF data = <<>> THEN <<>>
    ELSE IF Head(data)[1] \in s
         THEN Insert(Head(data)[2], IncomesOf(Tail(data), s))
         ELSE IncomesOf(Tail(data), s)

\* The statistics of a non-empty, sorted sequence of incomes.  A mean and a
\* median are exact rationals <<numerator, denominator>>.
Min(xs) == xs[1]
Max(xs) == xs[Len(xs)]
Mean(xs) == <<SumSeq(xs), Len(xs)>>
Median(xs) ==
    IF Len(xs) % 2 = 1 THEN <<xs[(Len(xs) + 1) \div 2], 1>>
    ELSE <<xs[Len(xs) \div 2] + xs[Len(xs) \div 2 + 1], 2>>

\* The subgroups of the data that have a row.
Populated(data) == {s \in Subgroups : IncomesOf(data, s) # <<>>}

\* The element names of a five-way cell: one per row of the cell.
ElemNames(c, n) == [k \in 1..n |-> <<c, k>>]

\* An application: one released statistic of one subgroup, as a statement
\* about the elements.
App(kind, s, v) == [kind |-> kind, s |-> s, v |-> v]

\* get_applications: the ordering of the elements of each five-way cell, and
\* the count, min, max, median and mean of each subgroup with at least
\* lowest_allowable_count elements.  The result is a set: the notebook
\* removes duplicates with list(set(applications)).
get_applications(counts, means, medians, mins, maxs) ==
    LET released == {s \in DOMAIN counts : counts[s] >= lowest_allowable_count}
    IN    {App("order", s, <<0, 1>>) : s \in {t \in released : Cardinality(t) = 1}}
     \cup {App("min", s, <<mins[s], 1>>) : s \in released}
     \cup {App("max", s, <<maxs[s], 1>>) : s \in released}
     \cup {App("median", s, medians[s]) : s \in released}
     \cup {App("mean", s, means[s]) : s \in released}

\* The elements of subgroup s.
ElementsOf(elems, s) ==
    UNION {{elems[c][k] : k \in DOMAIN elems[c]} : c \in s \cap DOMAIN elems}
AllElements(elems) == ElementsOf(elems, DOMAIN elems)

\* The values an assignment gives to a set of elements, sorted.
RECURSIVE ValuesOf(_, _)
ValuesOf(m, es) ==
    IF es = {} THEN <<>>
    ELSE LET e == CHOOSE x \in es : TRUE
         IN  Insert(m[e], ValuesOf(m, es \ {e}))

\* Assignment m keeps the elements of five-way cell c in the given order.
Ordered(m, names) ==
    \A k \in 1..(Len(names) - 1) : m[names[k]] <= m[names[k + 1]]

\* Rationals <<a, b>> and <<c, d>> with positive denominators are equal.
RatEq(p, q) == p[1] * q[2] = q[1] * p[2]

\* Assignment m satisfies application a.
Holds(a, m, elems) ==
    IF a.kind = "order"
    THEN Ordered(m, elems[CHOOSE x \in a.s : TRUE])
    ELSE LET xs == ValuesOf(m, ElementsOf(elems, a.s))
         IN  CASE a.kind = "min" -> RatEq(<<Min(xs), 1>>, a.v)
               [] a.kind = "max" -> RatEq(<<Max(xs), 1>>, a.v)
               [] a.kind = "median" -> RatEq(Median(xs), a.v)
               [] OTHER -> RatEq(Mean(xs), a.v)

\* applications_to_solver and check_solution: a model of the applications
\* when there is one, a false value when there is none.  (The orderings are
\* tested first: it changes no result.)
Models(apps, elems) ==
    LET orders == {a \in apps : a.kind = "order"}
    IN  {m \in [AllElements(elems) -> SolverValues] :
            /\ \A a \in orders : Holds(a, m, elems)
            /\ \A a \in apps \ orders : Holds(a, m, elems)}
check_solution(apps, elems) ==
    LET models == Models(apps, elems)
    IN  IF models = {} THEN {[sat |-> FALSE, m |-> <<>>]}
        ELSE {[sat |-> TRUE, m |-> mm] : mm \in models}

\* The true incomes, sorted within each five-way cell, as an assignment.
TrueAssignment(data, elems) ==
    [e \in AllElements(elems) |-> IncomesOf(data, {e[1]})[e[2]]]

\* if model: print('non-private: sat') else: print('non-private: unsat')
\* (faulty variant: the branches exchanged)
NonPrivateLineBug(md) ==
    IF md.sat THEN <<"non-private: unsat", 0>> ELSE <<"non-private: sat", 0>>
NonPrivateLine(md) ==
    IF md.sat THEN <<"non-private: sat", 0>> ELSE <<"non-private: unsat", 0>>
PrivateLine(md) ==
    IF md.sat THEN <<"private: sat", 0>> ELSE <<"private: unsat", 0>>

\* compare_data: how many incomes are reconstructed exactly, within $2,000
\* and within $5,000 of the original income of the same element.
Within2k == 2000
Within5k == 5000
Closeness(data, recon, elems, d) ==
    Cardinality({e \in AllElements(elems) :
                    Abs(recon[e] - TrueAssignment(data, elems)[e]) <= d})
\* (faulty variant: disjoint instead of cumulative tallies)
compare_dataBug(data, recon, elems) ==
    <<data, recon,
      Closeness(data, recon, elems, 0),
      Closeness(data, recon, elems, Within2k) - Closeness(data, recon, elems, 0),
      Closeness(data, recon, elems, Within5k) - Closeness(data, recon, elems, Within2k)>>
compare_data(data, recon, elems) ==
    <<data, recon,
      Closeness(data, recon, elems, 0),
      Closeness(data, recon, elems, Within2k),
      Closeness(data, recon, elems, Within5k)>>

\* orig_data, recon_data, exact, within_2k, within_5k = rec.compare_data(...):
\* the tallies are the third to fifth values returned, in this order.
UnpackTallies(r) == <<r[3], r[4], r[5]>>

\* Cell 1: load the data, compute the releases of every subgroup and name
\* the elements of every five-way cell.
Setup ==
    /\ pc = "setup"
    /\ \E data \in Datasets :
         LET pop == Populated(data) IN
         /\ orig_data' = data
         /\ count_dict' = [s \in pop |-> Len(IncomesOf(data, s))]
         /\ mean_income_dict' = [s \in pop |-> Mean(IncomesOf(data, s))]
         /\ median_income_dict' = [s \in pop |-> Median(IncomesOf(data, s))]
         /\ min_income_dict' = [s \in pop |-> Min(IncomesOf(data, s))]
         /\ max_income_dict' = [s \in pop |-> Max(IncomesOf(data, s))]
         /\ elem_dict' = [c \in {x \in Cells : {x} \in pop} |->
                             ElemNames(c, Len(IncomesOf(data, {c})))]
    /\ pc' = "applications"
    /\ UNCHANGED <<applications, model, priv_model, recon_data, tallies, stdout>>
    /\ UNCHANGED <<zvars, svars>>

\* Cell 4: set the applications and remove duplicates.
SetApplications ==
    /\ pc = "applications"
    /\ applications' = get_applications(count_dict, mean_income_dict,
                           median_income_dict, min_income_dict, max_income_dict)
    /\ pc' = "attack"
    /\ UNCHANGED <<orig_data, count_dict, mean_income_dict, median_income_dict,
                   min_income_dict, max_income_dict, elem_dict, model, priv_model,
                   recon_data, tallies, stdout>>
    /\ UNCHANGED <<zvars, svars>>

\* Attack #1: check both solvers, print the two verdicts and reconstruct the
\* data from the non-private model.  The private releases carry the noise of
\* the DP mechanism, so the private solver may answer either way.
\* reconstruct_data reads the model: with no model the cell stops in an error.
Attack1 ==
    /\ pc = "attack"
    /\ \E md \in check_solution(applications, elem_dict), psat \in BOOLEAN :
         /\ model' = md
         /\ priv_model' = [sat |-> psat, m |-> <<>>]
         /\ stdout' = stdout \o <<NonPrivateLine(md), PrivateLine(priv_model')>>
         /\ IF md.sat
            THEN recon_data' = md.m /\ pc' = "compare"
            ELSE recon_data' = recon_data /\ pc' = "error"
    /\ UNCHANGED <<orig_data, count_dict, mean_income_dict, median_income_dict,
                   min_income_dict, max_income_dict, elem_dict, applications, tallies>>
    /\ UNCHANGED <<zvars, svars>>

\* Cell 10: compare original and reconstructed data, print the tallies.
Compare ==
    /\ pc = "compare"
    /\ LET r == compare_data(orig_data, recon_data, elem_dict) IN
         /\ orig_data' = r[1]
         /\ recon_data' = r[2]
         /\ tallies' = UnpackTallies(r)
    /\ stdout' = stdout \o <<
           <<"Of 1000 total incomes:", 0>>,
           <<"incomes reconstructed exactly", tallies'[1]>>,
           <<"incomes resconstructed within $2,000", tallies'[2]>>,
           <<"incomes resconstructed within $5,000", tallies'[3]>> >>
    /\ pc' = "done"
    /\ UNCHANGED <<count_dict, mean_income_dict, median_income_dict,
                   min_income_dict, max_income_dict, elem_dict, applications, model,
                   priv_model>>
    /\ UNCHANGED <<zvars, svars>>

(***************************************************************************)
(* The accuracy simulations.  Real numbers are fixed-point: NRows units    *)
(* make 1, so that the mean of the NRows ages of the file is an integer    *)
(* number of units.  An age is a whole number of years.                    *)
(***************************************************************************)
\* Rows of data.csv.
NRows == 2
\* n_sims
NSims == 2

age_lower_bound == 0
age_upper_bound == 100

\* Ages of the file: within the bounds, on the upper bound, beyond it.
AgeValues == {93, age_upper_bound, age_upper_bound + 7}
AgeFiles == [1..NRows -> AgeValues]

\* The placeholder the result lists are initialised with: [0] * n_sims.
Placeholder == 0

np_mean(xs) == (NRows * SumSeq(xs)) \div Len(xs)

np_clip(xs, lo, hi) ==
    [k \in DOMAIN xs |-> IF xs[k] < lo THEN lo ELSE IF xs[k] > hi THEN hi ELSE xs[k]]

\* The components op.dp_mean adds to the analysis in iteration i (0-based):
\* one per iteration in the first simulation, two in the second.
DpMean1(i) == i + 1
TrueMean2(i) == 2 * i + 1
DpMean2(i) == 2 * i + 2

\* The slot of the result list iteration i writes (1-based: slot i + 1 is
\* Python's index i).
\* (faulty variant: every iteration writes the first slot)
SlotBug(i) == 1
Slot(i) == i + 1

\* get_accuracy(0.05) of a component: some positive accuracy.
AccuracyValues == {2}

\* The noise of a release with accuracy a: inside the accuracy interval on
\* its edges, and just outside on either side.
NoiseValues(a) == {-(a + 1), -a, a, a + 1}

\* What resizing to a wrong n moves the mean of D_tilde by.
ShiftValues == {0, 5}

\* (m >= val - accuracy) & (m <= val + accuracy)
\* (faulty variant: the upper test left out)
CoversBug(m, val, a) == m >= val - a
Covers(m, val, a) == (m >= val - a) /\ (m <= val + a)

\* The documented form: val in [m - a, m + a].
InInterval(val, m, a) == (m - a <= val) /\ (val <= m + a)

\* np.mean of a list of booleans, as <<number of true entries, length>>.
\* First simulation and second print of the second: one mean for all values.
\* (faulty variant: strict comparisons)
CoverageBug(m, vals, a) ==
    <<Cardinality({k \in DOMAIN vals : m > vals[k] - a /\ m < vals[k] + a}), Len(vals)>>
Coverage(m, vals, a) ==
    <<Cardinality({k \in DOMAIN vals : Covers(m, vals[k], a)}), Len(vals)>>
\* np.mean([... for val in dp_values]) with D_mean_age, first simulation.
CoverageOnD(m, vals, a) == Coverage(m, vals, a)
\* Second simulation, first print: zip(true_values, dp_values).
CoverageZip(trues, vals, a) ==
    <<Cardinality({k \in 1..(IF Len(trues) < Len(vals) THEN Len(trues) ELSE Len(vals)) :
                      Covers(trues[k], vals[k], a)}),
      IF Len(trues) < Len(vals) THEN Len(trues) ELSE Len(vals)>>

Line(sim, on, a, cov) == [sim |-> sim, on |-> on, accuracy |-> a, coverage |-> cov]

\* First simulation, up to the loop: read the file, take the two means, set
\* data_size to the number of rows, fill the list with placeholders and open
\* the analysis.
S1Setup ==
    /\ spc = "s1_setup"
    /\ \E file \in AgeFiles :
         /\ csv' = file
         /\ D_mean_age' = np_mean(file)
         /\ D_tilde_mean_age' = np_mean(np_clip(file, age_lower_bound, age_upper_bound))
    /\ data_size' = NRows
    /\ releases' = [k \in 1..NSims |-> Placeholder]
    /\ release_values' = <<>>
    /\ index' = 0
    /\ spc' = "s1_loop"
    /\ UNCHANGED <<true_D_tilde_mean_ages, dp_D_tilde_mean_ages, accuracy,
                   true_values, dp_values, sout>>
    /\ UNCHANGED <<zvars, rvars>>

\* for index in range(n_sims): releases[index] = op.dp_mean(...)
S1Loop ==
    /\ spc = "s1_loop"
    /\ index < NSims
    /\ releases' = [releases EXCEPT ![Slot(index)] = DpMean1(index)]
    /\ index' = index + 1
    /\ UNCHANGED <<spc, csv, D_mean_age, D_tilde_mean_age, data_size,
                   true_D_tilde_mean_ages, dp_D_tilde_mean_ages, accuracy,
                   release_values, true_values, dp_values, sout>>
    /\ UNCHANGED <<zvars, rvars>>

\* accuracy = releases[0].get_accuracy(0.05), once the loop has ended.  The
\* placeholder 0 has no get_accuracy: the cell stops in an error.
S1Accuracy ==
    /\ spc = "s1_loop"
    /\ index >= NSims
    /\ IF releases[1] = Placeholder
       THEN spc' = "error" /\ accuracy' = accuracy
       ELSE spc' = "s1_release" /\ accuracy' \in AccuracyValues
    /\ UNCHANGED <<csv, D_mean_age, D_tilde_mean_age, data_size, releases,
                   true_D_tilde_mean_ages, dp_D_tilde_mean_ages, index,
                   release_values, true_values, dp_values, sout>>
    /\ UNCHANGED <<zvars, rvars>>

\* analysis.release(): every component of the analysis gets its value, the
\* mean of the clamped data plus noise.
S1Release ==
    /\ spc = "s1_release"
    /\ release_values' \in [{DpMean1(i) : i \in 0..(NSims - 1)} ->
                               {D_tilde_mean_age + z : z \in NoiseValues(accuracy)}]
    /\ spc' = "s1_values"
    /\ UNCHANGED <<csv, D_mean_age, D_tilde_mean_age, data_size, releases,
                   true_D_tilde_mean_ages, dp_D_tilde_mean_ages, index, accuracy,
                   true_values, dp_values, sout>>
    /\ UNCHANGED <<zvars, rvars>>

\* The components of a list all have a value to read: none is the
\* placeholder, and the analysis has released each.
Readable(list) ==
    \A k \in DOMAIN list : list[k] # Placeholder /\ list[k] \in DOMAIN release_values
ValuesOfList(list) == [k \in DOMAIN list |-> release_values[list[k]]]

\* dp_values = [release.value for release in releases]
S1Values ==
    /\ spc = "s1_values"
    /\ IF Readable(releases)
       THEN spc' = "s1_print" /\ dp_values' = ValuesOfList(releases)
       ELSE spc' = "error" /\ dp_values' = dp_values
    /\ UNCHANGED <<csv, D_mean_age, D_tilde_mean_age, data_size, releases,
                   true_D_tilde_mean_ages, dp_D_tilde_mean_ages, index, accuracy,
                   release_values, true_values, sout>>
    /\ UNCHANGED <<zvars, rvars>>

\* The two prints of the first simulation.
S1Print ==
    /\ spc = "s1_print"
    /\ sout' = sout \o
         << Line(1, "D_tilde", accuracy, Coverage(D_tilde_mean_age, dp_values, accuracy)),
            Line(1, "D", accuracy, CoverageOnD(D_mean_age, dp_values, accuracy)) >>
    /\ spc' = "s2_setup"
    /\ UNCHANGED <<csv, D_mean_age, D_tilde_mean_age, data_size, releases,
                   true_D_tilde_mean_ages, dp_D_tilde_mean_ages, index, accuracy,
                   release_values, true_values, dp_values>>
    /\ UNCHANGED <<zvars, rvars>>

\* The n of the second simulation: not the number of rows (1050 for 1000).
WrongSize == NRows + 1

\* Second simulation, up to the loop: set data_size, fill both lists with
\* placeholders and open a new analysis.
S2Setup ==
    /\ spc = "s2_setup"
    /\ data_size' = WrongSize
    /\ true_D_tilde_mean_ages' = [k \in 1..NSims |-> Placeholder]
    /\ dp_D_tilde_mean_ages' = [k \in 1..NSims |-> Placeholder]
    /\ release_values' = <<>>
    /\ index' = 0
    /\ spc' = "s2_loop"
    /\ UNCHANGED <<csv, D_mean_age, D_tilde_mean_age, releases, accuracy,
                   true_values, dp_values, sout>>
    /\ UNCHANGED <<zvars, rvars>>

\* for index in range(n_sims): true_D_tilde_mean_ages[index] = op.dp_mean(...);
\* dp_D_tilde_mean_ages[index] = op.dp_mean(...)
S2Loop ==
    /\ spc = "s2_loop"
    /\ index < NSims
    /\ true_D_tilde_mean_ages' =
           [true_D_tilde_mean_ages EXCEPT ![Slot(index)] = TrueMean2(index)]
    /\ dp_D_tilde_mean_ages' =
           [dp_D_tilde_mean_ages EXCEPT ![Slot(index)] = DpMean2(index)]
    /\ index' = index + 1
    /\ UNCHANGED <<spc, csv, D_mean_age, D_tilde_mean_age, data_size, releases,
                   accuracy, release_values, true_values, dp_values, sout>>
    /\ UNCHANGED <<zvars, rvars>>

\* accuracy = dp_D_tilde_mean_ages[0].get_accuracy(0.05), once the loop has ended.
S2Accuracy ==
    /\ spc = "s2_loop"
    /\ index >= NSims
    /\ IF dp_D_tilde_mean_ages[1] = Placeholder
       THEN spc' = "error" /\ accuracy' = accuracy
       ELSE spc' = "s2_release" /\ accuracy' \in AccuracyValues
    /\ UNCHANGED <<csv, D_mean_age, D_tilde_mean_age, data_size, releases,
                   true_D_tilde_mean_ages, dp_D_tilde_mean_ages, index,
                   release_values, true_values, dp_values, sout>>
    /\ UNCHANGED <<zvars, rvars>>

\* analysis.release(): in each iteration the epsilon = 10^8 mean is the mean
\* of that iteration's resized data, the epsilon = 1 mean is it plus noise.
S2Release ==
    /\ spc = "s2_release"
    /\ \E shift \in [0..(NSims - 1) -> ShiftValues],
          noise \in [0..(NSims - 1) -> NoiseValues(accuracy)] :
         release_values' =
             [c \in 1..(2 * NSims) |->
                 IF c % 2 = 1
                 THEN D_tilde_mean_age + shift[(c - 1) \div 2]
                 ELSE D_tilde_mean_age + shift[(c - 2) \div 2] + noise[(c - 2) \div 2]]
    /\ spc' = "s2_values"
    /\ UNCHANGED <<csv, D_mean_age, D_tilde_mean_age, data_size, releases,
                   true_D_tilde_mean_ages, dp_D_tilde_mean_ages, index, accuracy,
                   true_values, dp_values, sout>>
    /\ UNCHANGED <<zvars, rvars>>

\* true_values = [true.value for ...]; dp_values = [dp.value for ...]
S2Values ==
    /\ spc = "s2_values"
    /\ IF Readable(true_D_tilde_mean_ages) /\ Readable(dp_D_tilde_mean_ages)
       THEN /\ spc' = "s2_print"
            /\ true_values' = ValuesOfList(true_D_tilde_mean_ages)
            /\ dp_values' = ValuesOfList(dp_D_tilde_mean_ages)
       ELSE /\ spc' = "error"
            /\ UNCHANGED <<true_values, dp_values>>
    /\ UNCHANGED <<csv, D_mean_age, D_tilde_mean_age, data_size, releases,
                   true_D_tilde_mean_ages, dp_D_tilde_mean_ages, index, accuracy,
                   release_values, sout>>
    /\ UNCHANGED <<zvars, rvars>>

\* The two prints of the second simulation.
S2Print ==
    /\ spc = "s2_print"
    /\ sout' = sout \o
         << Line(2, "D_tilde", accuracy, CoverageZip(true_values, dp_values, accuracy)),
            Line(2, "D", accuracy, Coverage(D_mean_age, dp_values, accuracy)) >>
    /\ spc' = "done"
    /\ UNCHANGED <<csv, D_mean_age, D_tilde_mean_age, data_size, releases,
                   true_D_tilde_mean_ages, dp_D_tilde_mean_ages, index, accuracy,
                   release_values, true_values, dp_values>>
    /\ UNCHANGED <<zvars, rvars>>

\* Before anything has run.  Each part is at the statement given, or idle.
Start(z, r, a) ==
    /\ zpc = z /\ zout = <<>>
    /\ pc = r
    /\ orig_data = <<>>
    /\ count_dict = <<>> /\ mean_income_dict = <<>> /\ median_income_dict = <<>>
    /\ min_income_dict = <<>> /\ max_income_dict = <<>> /\ elem_dict = <<>>
    /\ applications = {}
    /\ model = [sat |-> FALSE, m |-> <<>>]
    /\ priv_model = [sat |-> FALSE, m |-> <<>>]
    /\ recon_data = <<>> /\ tallies = <<0, 0, 0>> /\ stdout = <<>>
    /\ spc = a
    /\ csv = <<>>
    /\ D_mean_age = 0 /\ D_tilde_mean_age = 0 /\ data_size = 0
    /\ releases = <<>> /\ true_D_tilde_mean_ages = <<>> /\ dp_D_tilde_mean_ages = <<>>
    /\ index = 0 /\ accuracy = 0
    /\ release_values = <<>> /\ true_values = <<>> /\ dp_values = <<>>
    /\ sout = <<>>

ZNext == SolveSingle \/ SolveMany
RNext == Setup \/ SetApplications \/ Attack1 \/ Compare
SNext ==
    \/ S1Setup \/ S1Loop \/ S1Accuracy \/ S1Release \/ S1Values \/ S1Print
    \/ S2Setup \/ S2Loop \/ S2Accuracy \/ S2Release \/ S2Values \/ S2Print

\* The Z3 warm-up cells, the reconstruction attack, the accuracy simulations.
SpecZ3 == Start("single", "idle", "idle") /\ [][ZNext]_vars
SpecAttack == Start("idle", "setup", "idle") /\ [][RNext]_vars
SpecAccuracy == Start("idle", "idle", "s1_setup") /\ [][SNext]_vars

(***************************************************************************)
(* The claims.                                                             *)
(***************************************************************************)
TrueDatabase == <<MinRelease, MedianRelease, 130000>>

\* C2: with min 0, median 50,000 and sum 180,000 released, the only
\* satisfying assignment is (0, 50000, 130000): it is what z3.solve prints,
\* and no other candidate satisfies the constraints.
C2_SingleAssignment ==
    Len(zout) >= 1 =>
        /\ zout[1] = [sat |-> TRUE, m |-> TrueDatabase]
        /\ SingleModels = {TrueDatabase}

C2_Witness == Len(zout) >= 1 /\ zout[1].sat

\* C3: without the median the system stays satisfiable but has more than
\* one satisfying assignment, the true database among them, and every
\* assignment z3.solve prints has i_1 = 0, 0 <= i_2 <= 90000 and
\* i_3 = 180000 - i_2.
C3_ManyAssignments ==
    /\ \A k \in 2..Len(zout) :
         /\ zout[k].sat
         /\ zout[k].m[1] = 0
         /\ 0 <= zout[k].m[2] /\ zout[k].m[2] <= 90000
         /\ zout[k].m[3] = 180000 - zout[k].m[2]
    /\ Len(zout) >= 2 =>
         /\ TrueDatabase \in ManyModels
         /\ \E m \in ManyModels : m # TrueDatabase

C3_Witness ==
    /\ zpc = "done"
    /\ zout[2].m = TrueDatabase
    /\ zout[3].m # zout[2].m
    /\ zout[4].m[2] = 90000

C8_TalliesNested ==
    pc = "done" =>
        /\ 0 <= tallies[1]
        /\ tallies[1] <= tallies[2]
        /\ tallies[2] <= tallies[3]
        /\ tallies[3] <= Len(orig_data)

C8_Witness ==
    /\ pc = "done"
    /\ 0 < tallies[1]
    /\ tallies[2] < tallies[3]
    /\ tallies[3] = Len(orig_data)

InBounds(xs) ==
    \A k \in DOMAIN xs : age_lower_bound <= xs[k] /\ xs[k] <= age_upper_bound

\* C4: in the first simulation, when every age of the file lies within
\* [age_lower_bound, age_upper_bound] (clamping changes nothing; the size is
\* the right one), the coverage printed for D_tilde and the coverage printed
\* for D are equal, whatever the released values.
C4_CoverageMapsToD ==
    (Len(sout) >= 2 /\ InBounds(csv)) =>
        /\ sout[1].coverage = sout[2].coverage
        /\ sout[1].accuracy = sout[2].accuracy

C4_Witness ==
    /\ Len(sout) >= 2
    /\ InBounds(csv)
    /\ 0 < sout[1].coverage[1]
    /\ sout[1].coverage[1] < NSims

\* The number of values of vals within a of the mean paired with them.
Documented(means, vals, a) ==
    Cardinality({k \in DOMAIN vals : InInterval(vals[k], means[k], a)})
Const(m, vals) == [k \in DOMAIN vals |-> m]

\* C5: each printed coverage is the number of releases whose value lies in
\* [true mean - accuracy, true mean + accuracy], divided by n_sims, and lies
\* between 0 and 1.
C5_CoverageIsDocumentedFraction ==
    /\ spc = "s2_setup" =>
         /\ sout[1].coverage =
                <<Documented(Const(D_tilde_mean_age, dp_values), dp_values, accuracy), NSims>>
         /\ sout[2].coverage =
                <<Documented(Const(D_mean_age, dp_values), dp_values, accuracy), NSims>>
    /\ spc = "done" =>
         /\ sout[3].coverage = <<Documented(true_values, dp_values, accuracy), NSims>>
         /\ sout[4].coverage =
                <<Documented(Const(D_mean_age, dp_values), dp_values, accuracy), NSims>>
    /\ \A k \in DOMAIN sout :
         /\ 0 <= sout[k].coverage[1]
         /\ sout[k].coverage[1] <= sout[k].coverage[2]
         /\ sout[k].coverage[2] > 0

C5_Witness ==
    /\ spc = "done"
    /\ 0 < sout[3].coverage[1] /\ sout[3].coverage[1] < NSims
    /\ 0 < sout[4].coverage[1] /\ sout[4].coverage[1] < NSims
    /\ \E k \in DOMAIN dp_values : dp_values[k] = true_values[k] + accuracy
    /\ \E k \in DOMAIN dp_values : dp_values[k] = true_values[k] - accuracy - 1

\* A step changes slot k of a result list only from the placeholder to a
\* component, and only in the iteration whose index the slot is.
WrittenOnce(old, new) ==
    \A k \in DOMAIN old \cap DOMAIN new :
        new[k] # old[k] =>
            /\ old[k] = Placeholder
            /\ new[k] # Placeholder
            /\ k = index + 1
            /\ index' = index + 1

Filled(list) == \A k \in 1..NSims : list[k] # Placeholder

\* C7: in each simulation every slot of the result lists is overwritten
\* exactly once, by the iteration of its index; the accuracy is read from
\* the component at index 0 after the loop has ended; the values are read
\* after analysis.release() has run; no placeholder is ever dereferenced.
C7_SlotsReleasedBeforeRead ==
    /\ [](spc # "error")
    /\ [](spc \in {"s1_release", "s1_values", "s1_print"} =>
             index = NSims /\ Filled(releases))
    /\ [](spc \in {"s2_release", "s2_values", "s2_print", "done"} =>
             index = NSims /\ Filled(true_D_tilde_mean_ages)
                           /\ Filled(dp_D_tilde_mean_ages))
    /\ [](spc = "s1_print" => dp_values = ValuesOfList(releases))
    /\ [](spc \in {"s2_print", "done"} =>
             /\ true_values = ValuesOfList(true_D_tilde_mean_ages)
             /\ dp_values = ValuesOfList(dp_D_tilde_mean_ages))
    /\ [][/\ WrittenOnce(releases, releases')
          /\ WrittenOnce(true_D_tilde_mean_ages, true_D_tilde_mean_ages')
          /\ WrittenOnce(dp_D_tilde_mean_ages, dp_D_tilde_mean_ages')
          /\ release_values' # release_values =>
                 spc \in {"s1_setup", "s1_release", "s2_setup", "s2_release"}]_vars

C7_Witness ==
    /\ spc = "done"
    /\ Filled(releases)
    /\ Filled(dp_D_tilde_mean_ages)
    /\ \A k \in 1..NSims : dp_values[k] = release_values[DpMean2(k - 1)]

====
